---- MODULE Spec2Model ----
(***************************************************************************)
(* Model of the two scripts of fuel-calculator:                            *)
(*   scripts/generate_all_routes.py  (the batched distance-matrix run)     *)
(*   scripts/scrape_fuel_prices.py   (the fuel price scraper)              *)
(* Each script is a sequential program; its position is a pc variable.     *)
(* RoutesVars belong to the first script, ScrapeVars to the second.        *)
(***************************************************************************)
EXTENDS Integers, Sequences, FiniteSets, TLC

VARIABLES
    GOOGLE_API_KEY,     \* TRUE iff the environment variable is set and non-empty
    LOCATIONS_FILE,     \* content of data/locations.json: sequence of location ids
    ROUTES_CACHE_FILE,  \* content of data/routes_cache.json: key -> entry
    BATCH_SIZE,         \* main's BATCH_SIZE
    pc,                 \* position of generate_all_routes.main
    exit_status,        \* process exit status, -1 while running
    locations,          \* main's locations
    n,                  \* main's n
    cache,              \* main's cache: key -> entry
    request_count,      \* main's request_count
    i_start,            \* outer loop variable
    j_start,            \* inner loop variable
    calls,              \* history: every get_distance_matrix call and its reply
    warnings,           \* history: the per-element warning lines printed
    writes,             \* history: number of times ROUTES_CACHE_FILE was written
    summary,            \* the numbers printed in the final summary
    page,               \* scraper: what naftas.com.ar serves on this run
    FUEL_PRICES_FILE,   \* scraper: content of data/fuel_prices.json
    spc,                \* scraper: position of scrape_fuel_prices.main
    current,            \* scraper: main's current
    new_prices,         \* scraper: main's new_prices
    sexit,              \* scraper: process exit status, -1 while running
    saves               \* scraper history: number of save_prices calls

RoutesVars == <<GOOGLE_API_KEY, LOCATIONS_FILE, ROUTES_CACHE_FILE, BATCH_SIZE, pc,
                exit_status, locations, n, cache, request_count, i_start, j_start,
                calls, warnings, writes, summary>>
ScrapeVars == <<page, FUEL_PRICES_FILE, spc, current, new_prices, sexit, saves>>
vars == <<RoutesVars, ScrapeVars>>

(***************************************************************************)
(* Bounds of the model.                                                    *)
(***************************************************************************)
MaxLocations == 3       \* longest registry of the element-level specification
MaxBatch == 2           \* batch sizes 1..MaxBatch are tried beside the program's 10
MaxFaults == 1          \* failed calls plus failed elements the service injects per run
MaxGrid == 2            \* most row groups (and column groups) of the batch specification

\* BATCH_SIZE = 10 in main
ProgramBatchSize == 10

BatchSizes == (1..MaxBatch) \cup {ProgramBatchSize}

Min(a, b) == IF a < b THEN a ELSE b

(***************************************************************************)
(* Location registries.  A location is modelled by its id (its coordinates *)
(* only travel to the service, its nombre only labels a warning line).     *)
(* Ids are strings, unique within a registry.                              *)
(***************************************************************************)
SlugIds == <<"a", "a_a", "b", "b_a", "c", "c_a", "d", "d_a">>
PlainRegistry(len) == [k \in 1..len |-> ToString(k)]
SlugRegistry(len) == [k \in 1..len |-> SlugIds[k]]

(***************************************************************************)
(* The service.  The road distance and the duration of a pair are fixed by *)
(* the two locations (by their positions i, j in the registry, 1-based).   *)
(***************************************************************************)
DistanceM(i, j) == 1000 * i + 250 * j + 12 * ((i + j) % 2)
DurationS(i, j) == 60 * i + j

Element(i, j, failed) ==
    IF <<i, j>> \in failed
    THEN [status |-> "ZERO_RESULTS", distance |-> 0, duration |-> 0]
    ELSE [status |-> "OK", distance |-> DistanceM(i, j), duration |-> DurationS(i, j)]

\* What one HTTP exchange can give: requests.get raising (connection error,
\* timeout), a non-success HTTP status, a body whose status is not OK, or an OK
\* body with one element per (origin, destination), the elements of `failed`
\* (global positions) reporting ZERO_RESULTS.
NoRows == <<>>
ExceptionReply == [kind |-> "exception", status |-> "", rows |-> NoRows]
HttpErrorReply == [kind |-> "http_error", status |-> "", rows |-> NoRows]
ApiErrorReply == [kind |-> "body", status |-> "REQUEST_DENIED", rows |-> NoRows]
BodyReply(is, ie, js, je, failed) ==
    [kind |-> "body", status |-> "OK",
     rows |-> [r \in 1..(ie - is) |-> [c \in 1..(je - js) |->
                  Element(is + r, js + c, failed)]]]

(***************************************************************************)
(* Python values: dict, None, slices.                                      *)
(***************************************************************************)
EmptyDict == [k \in {} |-> 0]
SetItem(dict, key, value) ==
    [k \in (DOMAIN dict) \cup {key} |-> IF k = key THEN value ELSE dict[k]]

\* cache.update(routes): the entries of routes replace those of cache, key by key
UpdateAdding(c, routes) ==
    [k \in (DOMAIN c) \cup (DOMAIN routes) |->
        IF k \in DOMAIN c /\ k \in DOMAIN routes
        THEN [distance_km |-> c[k].distance_km + routes[k].distance_km,
              duration_seconds |-> c[k].duration_seconds + routes[k].duration_seconds]
        ELSE IF k \in DOMAIN routes THEN routes[k] ELSE c[k]]
Update(c, routes) ==
    [k \in (DOMAIN c) \cup (DOMAIN routes) |->
        IF k \in DOMAIN routes THEN routes[k] ELSE c[k]]

\* a variable that holds either None or a dict
None == [none |-> TRUE, value |-> EmptyDict]
Some(value) == [none |-> FALSE, value |-> value]

\* lst[start:end], start and end 0-based as in Python
Slice(lst, start, end) == SubSeq(lst, start + 1, end)

\* the registry positions (1-based) of the elements of a reply that are not OK,
\* the reply being for origins is+1.. and destinations js+1..
FailedCells(reply, is, js) ==
    {ij \in UNION {{<<is + r, js + c>> : c \in 1..Len(reply.rows[r])} :
                      r \in 1..Len(reply.rows)} :
        reply.rows[ij[1] - is][ij[2] - js].status # "OK"}

NoneData == [status |-> "None", rows |-> NoRows]

(***************************************************************************)
(* get_distance_matrix: the value returned when requests.get returns.      *)
(***************************************************************************)
Raises(reply) == reply.kind = "exception"
get_distance_matrix(reply) ==
    IF reply.kind = "http_error" THEN NoneData          \* not response.ok
    ELSE IF reply.status # "OK" THEN NoneData           \* data.get("status") != "OK"
    ELSE [status |-> reply.status, rows |-> reply.rows]

(***************************************************************************)
(* process_matrix_response                                                 *)
(***************************************************************************)
\* f"{origin['id']}_{destination['id']}"
CacheKey(origin, destination) == origin \o "_" \o destination

\* round(distance_m / 1000, 1), in tenths of a kilometre.  Python rounds a tie
\* to the even digit; the quotient is exact in binary (a true tie) when
\* distance_m is a multiple of 250, which every tie of DistanceM is.
RoundKm(distance_m) ==
    LET q == distance_m \div 100
        r == distance_m % 100
    IN  IF r < 50 THEN q
        ELSE IF r > 50 THEN q + 1
        ELSE IF q % 2 = 0 THEN q ELSE q + 1

\* if origin["id"] == destination["id"]: continue
NeverSkip(origin, destination) == FALSE
SkipSelf(origin, destination) == origin = destination

\* The (i, j) for which the two loops reach the body past the self-pair test,
\* and those of them whose element is OK.
Visited(data, origins, destinations) ==
    {ij \in UNION {{<<i, j>> : j \in 1..Len(data.rows[i])} : i \in 1..Len(data.rows)} :
        ~SkipSelf(origins[ij[1]], destinations[ij[2]])}
Stored(data, origins, destinations) ==
    {ij \in Visited(data, origins, destinations) :
        data.rows[ij[1]][ij[2]].status = "OK"}

\* enumerate(rows) outside, enumerate(elements) inside: row-major order
Before(a, b) == a[1] < b[1] \/ (a[1] = b[1] /\ a[2] < b[2])

\* routes as the loops leave it: routes[cache_key] = {...} is an assignment, so
\* a key holds what the last stored element with that key gave.
process_matrix_response(data, origins, destinations) ==
    LET keyed == {<<CacheKey(origins[ij[1]], destinations[ij[2]]), ij>> :
                     ij \in Stored(data, origins, destinations)}
        LastFor(key) == LET writers == {w \in keyed : w[1] = key}
                        IN  (CHOOSE w \in writers :
                                \A other \in writers : other # w => Before(other[2], w[2]))[2]
    IN  [key \in {w[1] : w \in keyed} |->
            LET last == LastFor(key)
                element == data.rows[last[1]][last[2]]
            IN  [distance_km |-> RoundKm(element.distance),
                 duration_seconds |-> element.duration]]

\* the warning lines of row i, in the order of its elements
RowWarnings(data, origins, destinations, i) ==
    LET Line(j) == [origin |-> origins[i], destination |-> destinations[j],
                    status |-> data.rows[i][j].status]
        Warned(line) == /\ ~SkipSelf(line.origin, line.destination)
                        /\ line.status # "OK"
    IN  SelectSeq([j \in 1..Len(data.rows[i]) |-> Line(j)], Warned)
RECURSIVE WarningsFrom(_, _, _, _)
WarningsFrom(data, origins, destinations, i) ==
    IF i > Len(data.rows) THEN <<>>
    ELSE RowWarnings(data, origins, destinations, i)
            \o WarningsFrom(data, origins, destinations, i + 1)
PrintedWarnings(data, origins, destinations) ==
    WarningsFrom(data, origins, destinations, 1)

(***************************************************************************)
(* main of generate_all_routes.py                                          *)
(***************************************************************************)
\* i_end = min(i_start + BATCH_SIZE, n), and the same for j_end
BatchEndOverlap(start, size, len) == Min(start + size + 1, len)
BatchEnd(start, size, len) == Min(start + size, len)

\* the step of range(0, n, BATCH_SIZE)
NextStart(start, size) == start + size

Expected(len) == len * (len - 1)
NoSummary == [printed |-> FALSE, requests |-> 0, cached |-> 0, expected |-> 0,
              warned |-> FALSE, failed |-> 0]

\* sys.exit(1) when GOOGLE_API_KEY is empty, before anything else happens
MissingKey ==
    /\ pc = "start"
    /\ ~GOOGLE_API_KEY
    /\ pc' = "exited"
    /\ exit_status' = 1
    /\ UNCHANGED <<GOOGLE_API_KEY, LOCATIONS_FILE, ROUTES_CACHE_FILE, BATCH_SIZE,
                   locations, n, cache, request_count, i_start, j_start, calls,
                   warnings, writes, summary>>
    /\ UNCHANGED ScrapeVars

\* load_locations, n, cache = {}, request_count = 0, and entry into the loops:
\* range(0, n, BATCH_SIZE) is empty exactly when n = 0
Begin ==
    /\ pc = "start"
    /\ GOOGLE_API_KEY
    /\ locations' = LOCATIONS_FILE
    /\ n' = Len(LOCATIONS_FILE)
    /\ cache' = EmptyDict
    /\ request_count' = 0
    /\ i_start' = 0
    /\ j_start' = 0
    /\ pc' = IF Len(LOCATIONS_FILE) > 0 THEN "loop" ELSE "save"
    /\ UNCHANGED <<GOOGLE_API_KEY, LOCATIONS_FILE, ROUTES_CACHE_FILE, BATCH_SIZE,
                   exit_status, calls, warnings, writes, summary>>
    /\ UNCHANGED ScrapeVars

\* One pass through the body of the inner loop, with the service answering
\* `reply`, and the step of the two range() loops that follows it.
SubQuery(reply) ==
    /\ pc = "loop"
    /\ LET i_end == BatchEnd(i_start, BATCH_SIZE, n)
           j_end == BatchEnd(j_start, BATCH_SIZE, n)
           batch_origins == Slice(locations, i_start, i_end)
           batch_destinations == Slice(locations, j_start, j_end)
           data == get_distance_matrix(reply)
           routes == process_matrix_response(data, batch_origins, batch_destinations)
       IN  /\ calls' = Append(calls, [i_start |-> i_start, i_end |-> i_end,
                                      j_start |-> j_start, j_end |-> j_end,
                                      kind |-> reply.kind, status |-> reply.status,
                                      failed |-> FailedCells(reply, i_start, j_start)])
           /\ IF Raises(reply)
              THEN \* the exception leaves get_distance_matrix and main
                   /\ pc' = "crashed"
                   /\ exit_status' = 1
                   /\ UNCHANGED <<cache, warnings, request_count, i_start, j_start>>
              ELSE /\ IF data # NoneData
                      THEN /\ cache' = Update(cache, routes)
                           /\ warnings' = warnings \o
                                PrintedWarnings(data, batch_origins, batch_destinations)
                      ELSE UNCHANGED <<cache, warnings>>
                   /\ request_count' = request_count + 1
                   /\ IF NextStart(j_start, BATCH_SIZE) < n
                      THEN /\ j_start' = NextStart(j_start, BATCH_SIZE)
                           /\ UNCHANGED <<i_start, pc>>
                      ELSE IF NextStart(i_start, BATCH_SIZE) < n
                      THEN /\ i_start' = NextStart(i_start, BATCH_SIZE)
                           /\ j_start' = 0
                           /\ UNCHANGED pc
                      ELSE /\ pc' = "save"
                           /\ UNCHANGED <<i_start, j_start>>
                   /\ UNCHANGED exit_status
    /\ UNCHANGED <<GOOGLE_API_KEY, LOCATIONS_FILE, ROUTES_CACHE_FILE, BATCH_SIZE,
                   locations, n, writes, summary>>
    /\ UNCHANGED ScrapeVars

\* json.dump(cache) over ROUTES_CACHE_FILE, the summary, and the normal return
FileContentMerged(old, c) == Update(old, c)
FileContent(old, c) == c
SaveCache ==
    /\ pc = "save"
    /\ ROUTES_CACHE_FILE' = FileContent(ROUTES_CACHE_FILE, cache)
    /\ writes' = writes + 1
    /\ summary' = [printed |-> TRUE,
                   requests |-> request_count,
                   cached |-> Cardinality(DOMAIN cache),
                   expected |-> Expected(n),
                   warned |-> Cardinality(DOMAIN cache) < Expected(n),
                   failed |-> IF Cardinality(DOMAIN cache) < Expected(n)
                              THEN Expected(n) - Cardinality(DOMAIN cache) ELSE 0]
    /\ pc' = "done"
    /\ exit_status' = 0
    /\ UNCHANGED <<GOOGLE_API_KEY, LOCATIONS_FILE, BATCH_SIZE, locations, n, cache,
                   request_count, i_start, j_start, calls, warnings>>
    /\ UNCHANGED ScrapeVars

(***************************************************************************)
(* The replies the service may give to the call for origins is+1..ie and   *)
(* destinations js+1..je.  A run suffers at most MaxFaults faults: failed  *)
(* calls (HTTP error, API error) and failed elements.                      *)
(***************************************************************************)
RECURSIVE SmallSubsets(_, _)
SmallSubsets(S, k) ==
    IF k = 0 THEN {{}}
    ELSE LET P == SmallSubsets(S, k - 1)
         IN  P \cup {p \cup {x} : p \in P, x \in S}

\* the faults of the calls made so far
CallFaults(call) ==
    IF call.kind = "exception" THEN 0
    ELSE IF call.kind = "http_error" \/ call.status # "OK" THEN 1
    ELSE Cardinality(call.failed)
RECURSIVE FaultsSoFar(_)
FaultsSoFar(cs) ==
    IF cs = <<>> THEN 0
    ELSE CallFaults(cs[Len(cs)]) + FaultsSoFar(SubSeq(cs, 1, Len(cs) - 1))

FailedCallReplies(budget) ==
    IF budget > 0 THEN {HttpErrorReply, ApiErrorReply} ELSE {}
\* every reply: each element of the batch may fail on its own
ElementReplies(is, ie, js, je, budget) ==
    {ExceptionReply} \cup FailedCallReplies(budget) \cup
    {BodyReply(is, ie, js, je, failed) :
        failed \in SmallSubsets(((is + 1)..ie) \X ((js + 1)..je), budget)}
\* the replies of the batch specification: the call fails, or every element is OK
UniformReplies(is, ie, js, je, budget) ==
    {ExceptionReply} \cup FailedCallReplies(budget) \cup {BodyReply(is, ie, js, je, {})}

IssueElementwise ==
    \E reply \in ElementReplies(i_start, BatchEnd(i_start, BATCH_SIZE, n),
                                j_start, BatchEnd(j_start, BATCH_SIZE, n),
                                MaxFaults - FaultsSoFar(calls)) :
        SubQuery(reply)
IssueUniform ==
    \E reply \in UniformReplies(i_start, BatchEnd(i_start, BATCH_SIZE, n),
                                j_start, BatchEnd(j_start, BATCH_SIZE, n),
                                MaxFaults - FaultsSoFar(calls)) :
        SubQuery(reply)

(***************************************************************************)
(* Initial states.                                                         *)
(***************************************************************************)
\* a routes_cache.json left by an earlier run
StaleCache == SetItem(EmptyDict, "x_y", [distance_km |-> 999, duration_seconds |-> 9])

IdlePage == [fetched |-> FALSE, patterns |-> <<>>, elements |-> <<>>, numbers |-> <<>>]
ScrapeIdle ==
    /\ page = IdlePage
    /\ FUEL_PRICES_FILE = EmptyDict
    /\ spc = "idle"
    /\ current = EmptyDict
    /\ new_prices = None
    /\ sexit = -1
    /\ saves = 0

RoutesStart ==
    /\ GOOGLE_API_KEY \in BOOLEAN
    /\ ROUTES_CACHE_FILE \in {EmptyDict, StaleCache}
    /\ pc = "start"
    /\ exit_status = -1
    /\ locations = <<>>
    /\ n = 0
    /\ cache = EmptyDict
    /\ request_count = 0
    /\ i_start = 0
    /\ j_start = 0
    /\ calls = <<>>
    /\ warnings = <<>>
    /\ writes = 0
    /\ summary = NoSummary

\* registries of up to MaxLocations locations, every element free to fail
Init ==
    /\ RoutesStart
    /\ BATCH_SIZE \in BatchSizes
    /\ LOCATIONS_FILE \in {PlainRegistry(len) : len \in 0..MaxLocations}
                          \cup {SlugRegistry(len) : len \in 0..MaxLocations}
    /\ ScrapeIdle

\* registries of up to MaxGrid batches a side, calls failing or succeeding whole
InitBatch ==
    /\ RoutesStart
    /\ BATCH_SIZE \in BatchSizes
    /\ LOCATIONS_FILE \in {PlainRegistry(len) : len \in 0..(MaxGrid * BATCH_SIZE)}
    /\ ScrapeIdle

Next == MissingKey \/ Begin \/ IssueElementwise \/ SaveCache
NextBatch == MissingKey \/ Begin \/ IssueUniform \/ SaveCache

Spec == Init /\ [][Next]_vars
SpecBatch == InitBatch /\ [][NextBatch]_vars

(***************************************************************************)
(* scrape_fuel_prices.py.  Prices are kept in thousandths of a peso, so    *)
(* that float("15.66") and float("1566.00") are integers of the model.     *)
(***************************************************************************)
MaxPriceElements == 1   \* most elements of the page with a price class

\* Python's None where a price is expected
NonePrice == -1

\* a text is the sequence of its characters
PriceChars == {"0", "1", "2", "3", "4", "5", "6", "7", "8", "9", ".", ","}
IsPriceChar(ch) == ch \in PriceChars
Has(text, ch) == \E k \in 1..Len(text) : text[k] = ch
Count(text, ch) == Cardinality({k \in 1..Len(text) : text[k] = ch})
Remove(text, ch) == LET Keep(x) == x # ch IN SelectSeq(text, Keep)
Replace(text, old, new) == [k \in 1..Len(text) |-> IF text[k] = old THEN new ELSE text[k]]

DigitValue(ch) == CHOOSE d \in 0..9 : ToString(d) = ch
RECURSIVE DigitsValue(_)
DigitsValue(text) ==
    IF text = <<>> THEN 0
    ELSE 10 * DigitsValue(SubSeq(text, 1, Len(text) - 1)) + DigitValue(text[Len(text)])

\* float(cleaned) for a text of digits and dots, in thousandths (the texts of
\* the model carry at most three decimals); NonePrice where float() raises
\* ValueError: no digit at all, or more than one dot
Float(cleaned) ==
    IF Count(cleaned, ".") > 1 \/ Len(Remove(cleaned, ".")) = 0 THEN NonePrice
    ELSE IF ~Has(cleaned, ".") THEN 1000 * DigitsValue(cleaned)
    ELSE LET dot == CHOOSE k \in 1..Len(cleaned) : cleaned[k] = "."
             whole == SubSeq(cleaned, 1, dot - 1)
             decimals == SubSeq(cleaned, dot + 1, Len(cleaned))
             padded == SubSeq(decimals \o <<"0", "0", "0">>, 1, 3)
         IN  1000 * DigitsValue(whole) + DigitsValue(padded)

parse_price(price_text) ==
    LET cleaned == SelectSeq(price_text, IsPriceChar)
        normal ==
            IF Has(cleaned, ",")
            THEN Replace(Remove(cleaned, "."), ",", ".")
            ELSE IF Count(cleaned, ".") > 1
            THEN Remove(cleaned, ".")
            ELSE IF Has(cleaned, ".")
            THEN LET dot == CHOOSE k \in 1..Len(cleaned) : cleaned[k] = "."
                 IN  IF Len(cleaned) - dot = 3 THEN Remove(cleaned, ".") ELSE cleaned
            ELSE cleaned
    IN  Float(normal)

\* if price and price > 100
Sane(price) == price # NonePrice /\ price # 0 /\ price > 100 * 1000

\* the fuel type of each entry of `patterns`, in order
PatternFuel == <<"NAFTA", "NAFTA", "ULTRA", "ULTRA",
                 "INFINIA_DIESEL", "INFINIA_DIESEL", "INFINIA_DIESEL">>
NoMatch == [found |-> FALSE, text |-> <<>>]
Match(text) == [found |-> TRUE, text |-> text]

\* Method 1: prices after the first k patterns were tried on the page text
RECURSIVE AfterPatterns(_, _)
AfterPatterns(pg, k) ==
    IF k = 0 THEN EmptyDict
    ELSE LET prices == AfterPatterns(pg, k - 1)
             fuel_type == PatternFuel[k]
             match == pg.patterns[k]
         IN  IF fuel_type \notin DOMAIN prices /\ match.found /\ Sane(parse_price(match.text))
             THEN SetItem(prices, fuel_type, parse_price(match.text))
             ELSE prices

\* Method 2: the body of the loop over price_elements for one element
AfterElement(prices, elem) ==
    IF ~(elem.price_text.found /\ Sane(parse_price(elem.price_text.text))) THEN prices
    ELSE LET price == parse_price(elem.price_text.text)
             in(word) == word \in elem.words
         IN  IF in("super") \/ in("nafta")
             THEN IF "NAFTA" \notin DOMAIN prices
                  THEN SetItem(prices, "NAFTA", price) ELSE prices
             ELSE IF in("gasoil") \/ (in("diesel") /\ ~in("euro"))
             THEN IF "ULTRA" \notin DOMAIN prices
                  THEN SetItem(prices, "ULTRA", price) ELSE prices
             ELSE IF in("euro") \/ in("infinia") \/ in("premium")
             THEN IF "INFINIA_DIESEL" \notin DOMAIN prices
                  THEN SetItem(prices, "INFINIA_DIESEL", price) ELSE prices
             ELSE prices
RECURSIVE AfterElements(_, _)
AfterElements(pg, k) ==
    IF k = 0 THEN AfterPatterns(pg, Len(PatternFuel))
    ELSE AfterElement(AfterElements(pg, k - 1), pg.elements[k])

\* `text` when the fallback runs: the loop over price_elements reassigns it, so
\* it is the text of the last element when there is one, the page text otherwise;
\* this gives the matches of the four-digit pattern in it, as numbers
FallbackMatches(pg) ==
    IF Len(pg.elements) = 0 THEN pg.numbers ELSE pg.elements[Len(pg.elements)].numbers

\* sorted(...) of the first six matches, then list(dict.fromkeys(...))
RECURSIVE Ascending(_)
Ascending(S) ==
    IF S = {} THEN <<>>
    ELSE LET least == CHOOSE x \in S : \A y \in S : x <= y
         IN  <<least>> \o Ascending(S \ {least})
UniquePrices(all_prices) ==
    Ascending({all_prices[k] : k \in 1..Min(6, Len(all_prices))})

RequiredTypes == <<"NAFTA", "ULTRA", "INFINIA_DIESEL">>

\* prices at the return statement
FinalPrices(pg) ==
    LET prices == AfterElements(pg, Len(pg.elements))
        missing == {t \in {RequiredTypes[k] : k \in 1..3} : t \notin DOMAIN prices}
        all_prices == FallbackMatches(pg)
        unique_prices == UniquePrices(all_prices)
    IN  IF missing # {} /\ Len(all_prices) >= 3 /\ Len(unique_prices) >= 3
        THEN [t \in {RequiredTypes[k] : k \in 1..3} |->
                 IF t \in DOMAIN prices THEN prices[t]
                 ELSE unique_prices[CHOOSE k \in 1..3 : RequiredTypes[k] = t]]
        ELSE prices

\* return prices if len(prices) >= 3 else None
ReturnedWithTwo(prices) == IF Cardinality(DOMAIN prices) >= 2 THEN Some(prices) ELSE None
Returned3(prices) == IF Cardinality(DOMAIN prices) >= 3 THEN Some(prices) ELSE None

\* fetch_page gives None on a request error; `if not html` also takes an empty page
scrape_fuel_prices(pg) ==
    IF ~pg.fetched THEN None ELSE Returned3(FinalPrices(pg))

\* the data save_prices writes
Today == "today"
SavedData(prices) ==
    LET get(t) == IF t \in DOMAIN prices THEN prices[t] ELSE 0
    IN  [NAFTA |-> get("NAFTA"), ULTRA |-> get("ULTRA"),
         INFINIA_DIESEL |-> get("INFINIA_DIESEL"), last_updated |-> Today]

\* current = load_current_prices()
LoadCurrent ==
    /\ spc = "start"
    /\ current' = FUEL_PRICES_FILE
    /\ spc' = "scrape"
    /\ UNCHANGED <<page, FUEL_PRICES_FILE, new_prices, sexit, saves>>
    /\ UNCHANGED RoutesVars

\* new_prices = scrape_fuel_prices()
Scrape ==
    /\ spc = "scrape"
    /\ new_prices' = scrape_fuel_prices(page)
    /\ spc' = "check"
    /\ UNCHANGED <<page, FUEL_PRICES_FILE, current, sexit, saves>>
    /\ UNCHANGED RoutesVars

\* if not new_prices: sys.exit(1)
KeepExisting ==
    /\ spc = "check"
    /\ new_prices.none \/ new_prices.value = EmptyDict
    /\ sexit' = 1
    /\ spc' = "exited"
    /\ UNCHANGED <<page, FUEL_PRICES_FILE, current, new_prices, saves>>
    /\ UNCHANGED RoutesVars

\* the comparison printed, then save_prices(new_prices)
SavePrices ==
    /\ spc = "check"
    /\ ~(new_prices.none \/ new_prices.value = EmptyDict)
    /\ FUEL_PRICES_FILE' = SavedData(new_prices.value)
    /\ saves' = saves + 1
    /\ sexit' = 0
    /\ spc' = "done"
    /\ UNCHANGED <<page, current, new_prices>>
    /\ UNCHANGED RoutesVars

(***************************************************************************)
(* The pages the site may serve.  For each pattern of Method 1: no match,  *)
(* or a match whose group is one of a few texts; up to MaxPriceElements    *)
(* elements with a price class; the four-digit numbers of the page text.   *)
(***************************************************************************)
GoodTexts == << <<"1", ".", "5", "6", "6">>,
                <<"1", "5", "6", "6">>,
                <<"1", ".", "6", "0", "1", ",", "0", "0">>,
                <<"1", ".", "6", ".", "1">>,
                <<"1", "8", "0", "9", ".", "5", "0">>,
                <<"1", ".", "8", "0", "9">>,
                <<"2", "0", "0", "0">> >>
BadTexts == << <<"1", "5", ".", "6", "6">>,
               <<"9", "9">>,
               <<".">>,
               <<"0">>,
               <<"1", ",", "2", ",", "3">>,
               <<"1", ",", "8", "0", "9">>,
               <<"1", "0", "0">> >>
PatternChoices(k) ==
    {NoMatch, Match(GoodTexts[k])} \cup (IF k \in {1, 5} THEN {Match(BadTexts[k])} ELSE {})
PatternOutcomes ==
    {<<p1, p2, p3, p4, p5, p6, p7>> :
        p1 \in PatternChoices(1), p2 \in PatternChoices(2), p3 \in PatternChoices(3),
        p4 \in PatternChoices(4), p5 \in PatternChoices(5), p6 \in PatternChoices(6),
        p7 \in PatternChoices(7)}

WordSets == {{"nafta"}, {"gasoil"}, {"diesel"}, {"diesel", "euro"}, {"premium"}, {}}
ThreeNumbers == <<1800000, 1500000, 1600000, 1500000>>
TwoNumbers == <<1500000, 1600000, 1500000>>
PriceElements ==
    {[words |-> w, price_text |-> Match(<<"1", ".", "7", "0", "0">>), numbers |-> <<>>] :
        w \in WordSets}
    \cup {[words |-> {"super"}, price_text |-> Match(<<"5", "0">>), numbers |-> <<>>],
          [words |-> {"gasoil"}, price_text |-> NoMatch, numbers |-> <<>>],
          [words |-> {}, price_text |-> Match(<<"1", "8", "0", "0">>),
           numbers |-> ThreeNumbers]}
ElementLists == UNION {[1..len -> PriceElements] : len \in 0..MaxPriceElements}

UnfetchedPage == [fetched |-> FALSE, patterns |-> [k \in 1..Len(PatternFuel) |-> NoMatch],
                  elements |-> <<>>, numbers |-> <<>>]
Pages ==
    {UnfetchedPage} \cup
    {[fetched |-> TRUE, patterns |-> ps, elements |-> es, numbers |-> ns] :
        ps \in PatternOutcomes, es \in ElementLists,
        ns \in {<<>>, ThreeNumbers, TwoNumbers}}

\* a fuel_prices.json written by an earlier run
OldPrices == [NAFTA |-> 1400000, ULTRA |-> 1450000, INFINIA_DIESEL |-> 1700000,
              last_updated |-> "last month"]

RoutesIdle ==
    /\ GOOGLE_API_KEY = FALSE
    /\ LOCATIONS_FILE = <<>>
    /\ ROUTES_CACHE_FILE = EmptyDict
    /\ BATCH_SIZE = ProgramBatchSize
    /\ pc = "idle"
    /\ exit_status = -1
    /\ locations = <<>>
    /\ n = 0
    /\ cache = EmptyDict
    /\ request_count = 0
    /\ i_start = 0
    /\ j_start = 0
    /\ calls = <<>>
    /\ warnings = <<>>
    /\ writes = 0
    /\ summary = NoSummary

InitScrape ==
    /\ page \in Pages
    /\ FUEL_PRICES_FILE \in {EmptyDict, OldPrices}
    /\ spc = "start"
    /\ current = EmptyDict
    /\ new_prices = None
    /\ sexit = -1
    /\ saves = 0
    /\ RoutesIdle

NextScrape == LoadCurrent \/ Scrape \/ KeepExisting \/ SavePrices
SpecScrape == InitScrape /\ [][NextScrape]_vars

(***************************************************************************)
(* Vocabulary of the properties.                                           *)
(***************************************************************************)
\* "Max 100 elements (origins x destinations) per request"
MaxElements == 100

CeilDiv(a, b) == (a + b - 1) \div b
GridCells == CeilDiv(n, BATCH_SIZE) * CeilDiv(n, BATCH_SIZE)
\* the 0-based index pairs a call asks for
Rect(call) == (call.i_start..(call.i_end - 1)) \X (call.j_start..(call.j_end - 1))
Returned(call) == call.kind # "exception"
Succeeded(call) == call.kind = "body" /\ call.status = "OK"
LoopsDone == pc \in {"save", "done"}
Ended == pc \in {"done", "exited", "crashed"}
\* the non-self pairs (1-based positions) of a call, and their keys
NonSelf(call) ==
    {ij \in ((call.i_start + 1)..call.i_end) \X ((call.j_start + 1)..call.j_end) :
        locations[ij[1]] # locations[ij[2]]}
KeyAt(ij) == CacheKey(locations[ij[1]], locations[ij[2]])
EntryAt(ij) == [distance_km |-> RoundKm(DistanceM(ij[1], ij[2])),
                duration_seconds |-> DurationS(ij[1], ij[2])]
CallSet == {calls[k] : k \in 1..Len(calls)}

(***************************************************************************)
(* The partition the two loops walk: at every point of a run no index pair *)
(* lies in the rectangles of two calls and request_count is the number of  *)
(* calls that have returned (with data or with None); once the loops have  *)
(* run to their end, ceil(N/B)^2 calls were made and counted and their     *)
(* rectangles cover [0,N) x [0,N).                                         *)
(***************************************************************************)
PartitionExact ==
    /\ request_count = Cardinality({k \in 1..Len(calls) : Returned(calls[k])})
    /\ \A k, l \in 1..Len(calls) : k # l => Rect(calls[k]) \cap Rect(calls[l]) = {}
    /\ LoopsDone =>
          /\ request_count = GridCells
          /\ Len(calls) = GridCells
          /\ UNION {Rect(c) : c \in CallSet} = (0..(n - 1)) \X (0..(n - 1))

(***************************************************************************)
(* C1: for every N and B the run issues exactly ceil(N/B)^2 calls, each    *)
(* counted in request_count whether it succeeds or fails, and the          *)
(* rectangles of the calls cover every index pair of [0,N) x [0,N)         *)
(* exactly once: a run that has the credential ends with all of that done. *)
(***************************************************************************)
C1_GridIssuedAndCounted ==
    /\ \A k, l \in 1..Len(calls) : k # l => Rect(calls[k]) \cap Rect(calls[l]) = {}
    /\ request_count = Len(calls)
    /\ (Ended /\ GOOGLE_API_KEY) =>
          /\ Len(calls) = GridCells
          /\ request_count = GridCells
          /\ UNION {Rect(c) : c \in CallSet} = (0..(n - 1)) \X (0..(n - 1))

(***************************************************************************)
(* C8: every call made has between 1 and BATCH_SIZE origins and between 1  *)
(* and BATCH_SIZE destinations; with the program's BATCH_SIZE = 10 that is *)
(* at most 10 of each and at most 100 elements.                            *)
(***************************************************************************)
C8_BatchLimits ==
    \A c \in CallSet :
        LET origins == c.i_end - c.i_start
            destinations == c.j_end - c.j_start
        IN  /\ 1 <= origins /\ origins <= BATCH_SIZE
            /\ 1 <= destinations /\ destinations <= BATCH_SIZE
            /\ origins = Len(Slice(locations, c.i_start, c.i_end))
            /\ destinations = Len(Slice(locations, c.j_start, c.j_end))
            /\ BATCH_SIZE = ProgramBatchSize =>
                  /\ origins <= 10 /\ destinations <= 10
                  /\ origins * destinations <= MaxElements

\* more locations than one batch holds: a full 10 x 10 call and a shorter one
C8_Witness ==
    /\ BATCH_SIZE = ProgramBatchSize
    /\ n > ProgramBatchSize
    /\ \E c \in CallSet : c.i_end - c.i_start = 10 /\ c.j_end - c.j_start = 10
    /\ \E c \in CallSet : c.i_end - c.i_start < 10 /\ c.j_end - c.j_start < 10

(***************************************************************************)
(* C2: failed calls do not abort the run.  No exception leaves main; a     *)
(* call that failed leaves the cache as it was, so every cache key belongs *)
(* to an OK non-self pair of a call that succeeded; once the run has       *)
(* ended every call of the grid was made and every OK non-self pair of     *)
(* every call that succeeded is in the written file.                       *)
(***************************************************************************)
C2_FailedCallsIsolated ==
    /\ pc # "crashed"
    /\ \A key \in DOMAIN cache :
          \E c \in CallSet : /\ Succeeded(c)
                             /\ \E ij \in NonSelf(c) \ c.failed : KeyAt(ij) = key
    /\ (Ended /\ GOOGLE_API_KEY) =>
          /\ Len(calls) = GridCells
          /\ \A c \in CallSet :
                Succeeded(c) =>
                   \A ij \in NonSelf(c) \ c.failed : KeyAt(ij) \in DOMAIN ROUTES_CACHE_FILE

(***************************************************************************)
(* C3: unique ids, every call succeeded and every element is OK: after the *)
(* last call the cache holds exactly N x (N - 1) entries, one per ordered  *)
(* pair of distinct locations, and the summary shows no deficit.           *)
(***************************************************************************)
UniqueIds == \A k, l \in 1..Len(locations) : k # l => locations[k] # locations[l]
AllOk == \A c \in CallSet : Succeeded(c) /\ c.failed = {}
C3_CompleteWhenAllOk ==
    (LoopsDone /\ UniqueIds /\ AllOk) =>
        /\ Cardinality(DOMAIN cache) = n * (n - 1)
        /\ pc = "done" => /\ ~summary.warned
                          /\ summary.cached = summary.expected

(***************************************************************************)
(* C4: a self-pair produces neither a cache entry nor a warning line,      *)
(* whatever the service reports for it: in every state each cache entry    *)
(* is the entry of an OK element of two distinct locations, and each       *)
(* warning line names two distinct locations.                              *)
(***************************************************************************)
C4_NoSelfPairEntry ==
    /\ \A key \in DOMAIN cache :
          \E c \in CallSet :
              /\ Succeeded(c)
              /\ \E ij \in NonSelf(c) \ c.failed :
                    /\ ij[1] # ij[2]
                    /\ KeyAt(ij) = key
                    /\ cache[key].duration_seconds \in
                          {EntryAt(w).duration_seconds :
                              w \in {v \in NonSelf(c) \ c.failed : KeyAt(v) = key}}
    /\ \A k \in 1..Len(warnings) : warnings[k].origin # warnings[k].destination

\* a response held two self-pairs, one reported OK and one reported not OK,
\* beside pairs that were cached: no line was printed
C4_Witness ==
    /\ DOMAIN cache # {}
    /\ warnings = <<>>
    /\ \E c \in CallSet :
          /\ Succeeded(c)
          /\ \E i, j \in (c.i_start + 1)..c.i_end :
                /\ i # j
                /\ {i, j} \subseteq (c.j_start + 1)..c.j_end
                /\ <<i, i>> \in c.failed
                /\ <<j, j>> \notin c.failed

(***************************************************************************)
(* C5: the exit status is non-zero only when the credential is absent.     *)
(* Absent: the run ends with status 1 with no location loaded, no call     *)
(* made and no file written.  Present: the run ends with status 0          *)
(* whatever the calls gave.                                                *)
(***************************************************************************)
C5_ExitStatus ==
    /\ exit_status # -1 => (exit_status # 0 <=> ~GOOGLE_API_KEY)
    /\ ~GOOGLE_API_KEY => /\ locations = <<>>
                          /\ calls = <<>>
                          /\ writes = 0

(***************************************************************************)
(* C6: a non-self pair whose element is not OK leaves out that pair's      *)
(* entry and nothing else.  For every call that succeeded, the key of a    *)
(* failed non-self pair is not in the cache and the key of every OK        *)
(* non-self pair is; the summary's deficit is expected minus cached, shown *)
(* exactly when cached is below expected; with N = 3 and one failed        *)
(* element the cache has 5 entries and the deficit is 1.                   *)
(***************************************************************************)
FailedNonSelf == UNION {NonSelf(c) \cap c.failed : c \in {d \in CallSet : Succeeded(d)}}
C6_ElementFailureOmitsOnlyThatPair ==
    /\ \A c \in CallSet :
          Succeeded(c) =>
             /\ \A ij \in NonSelf(c) \cap c.failed : KeyAt(ij) \notin DOMAIN cache
             /\ \A ij \in NonSelf(c) \ c.failed : KeyAt(ij) \in DOMAIN cache
    /\ pc = "done" =>
          /\ summary.warned <=> summary.cached < summary.expected
          /\ summary.warned => summary.failed = summary.expected - summary.cached
          /\ (n = 3 /\ UniqueIds /\ (\A c \in CallSet : Succeeded(c))
                /\ Cardinality(FailedNonSelf) = 1) =>
                   /\ summary.cached = 5
                   /\ summary.warned /\ summary.failed = 1

(***************************************************************************)
(* C7: aggregation is idempotent.  In every state reached with the         *)
(* registry loaded, for every sub-query of the grid and every response to  *)
(* it (all elements OK, or one element failed), merging the routes of the  *)
(* response into the cache a second time leaves the cache exactly as the   *)
(* first merge left it: same keys, same distance_km and duration_seconds.  *)
(***************************************************************************)
GridStarts == {k * BATCH_SIZE : k \in 0..(CeilDiv(n, BATCH_SIZE) - 1)}
Responses(is, js) ==
    LET ie == BatchEnd(is, BATCH_SIZE, n)
        je == BatchEnd(js, BATCH_SIZE, n)
    IN  {get_distance_matrix(BodyReply(is, ie, js, je, failed)) :
            failed \in SmallSubsets(((is + 1)..ie) \X ((js + 1)..je), 1)}
RoutesOf(data, is, js) ==
    process_matrix_response(data,
                            Slice(locations, is, BatchEnd(is, BATCH_SIZE, n)),
                            Slice(locations, js, BatchEnd(js, BATCH_SIZE, n)))
C7_AggregationIdempotent ==
    pc \in {"loop", "save", "done"} =>
        \A is \in GridStarts, js \in GridStarts :
            \A data \in Responses(is, js) :
                LET routes == RoutesOf(data, is, js)
                    once == Update(cache, routes)
                    twice == Update(once, RoutesOf(data, is, js))
                IN  /\ DOMAIN twice = DOMAIN once
                    /\ \A key \in DOMAIN once :
                          /\ twice[key].distance_km = once[key].distance_km
                          /\ twice[key].duration_seconds = once[key].duration_seconds

\* the merge is not empty: the response rewrites a key the cache already holds
\* with other values, beside keys it leaves alone
C7_Witness ==
    /\ pc = "loop"
    /\ \E data \in Responses(i_start, j_start) :
          LET routes == RoutesOf(data, i_start, j_start)
          IN  /\ \E key \in (DOMAIN routes) \cap (DOMAIN cache) : routes[key] # cache[key]
              /\ (DOMAIN cache) \ (DOMAIN routes) # {}

(***************************************************************************)
(* C9: the cache only grows and the file is written once, at the end.      *)
(* Every step keeps every key of the cache; the file changes only in the   *)
(* one step taken after the last call of the grid has been made and        *)
(* merged, and then it becomes exactly the cache of this run; a run that   *)
(* ends normally has written the file once, a run that ends in any other   *)
(* way has not written it.                                                 *)
(***************************************************************************)
C9_Step ==
    /\ \A key \in DOMAIN cache : key \in DOMAIN cache'
    /\ (writes' # writes \/ ROUTES_CACHE_FILE' # ROUTES_CACHE_FILE) =>
          /\ GOOGLE_API_KEY
          /\ writes = 0 /\ writes' = 1
          /\ pc = "save" /\ pc' = "done"
          /\ Len(calls) = GridCells /\ request_count = GridCells
          /\ cache' = cache
          /\ ROUTES_CACHE_FILE' = cache
    /\ pc' = "done" => writes' = 1
    /\ pc' \in {"exited", "crashed"} =>
          /\ writes' = 0
          /\ ROUTES_CACHE_FILE' = ROUTES_CACHE_FILE
C9_WrittenOnceAtEnd == [][C9_Step]_vars

\* a run of several calls, one of them failed, has replaced an older file by
\* its own cache
C9_Witness ==
    /\ pc = "done"
    /\ writes = 1
    /\ Len(calls) > 1
    /\ \E c \in CallSet : ~Succeeded(c)
    /\ DOMAIN cache # {}
    /\ ROUTES_CACHE_FILE = cache
    /\ ROUTES_CACHE_FILE # StaleCache

(***************************************************************************)
(* C10: the prices file is overwritten only when a price was found for     *)
(* each of NAFTA, ULTRA and INFINIA_DIESEL.  When the page was not fetched *)
(* or fewer than three types are priced after the patterns, the elements   *)
(* and the fallback, scrape_fuel_prices returns None, main exits with      *)
(* status 1 without calling save_prices and the file is as it was loaded;  *)
(* when the file is written, it holds the price found for each type, none  *)
(* of them the placeholder 0.                                              *)
(***************************************************************************)
FuelTypes == {RequiredTypes[k] : k \in 1..3}
Priced == IF page.fetched THEN DOMAIN FinalPrices(page) ELSE {}
C10_OverwriteOnlyWithThreePrices ==
    /\ saves <= 1
    /\ (spc # "start" /\ saves = 0) => FUEL_PRICES_FILE = current
    /\ (spc \in {"check", "exited", "done"} /\ Priced # FuelTypes) =>
          /\ new_prices = None
          /\ spc # "done"
          /\ saves = 0
          /\ spc = "exited" => sexit = 1
    /\ sexit = 1 => saves = 0
    /\ saves = 1 =>
          /\ Priced = FuelTypes
          /\ spc = "done" /\ sexit = 0
          /\ \A t \in FuelTypes :
                /\ FUEL_PRICES_FILE[t] = FinalPrices(page)[t]
                /\ FUEL_PRICES_FILE[t] # 0

\* the page was fetched and two of the three types were priced: exit 1, and the
\* file of the earlier run is untouched
C10_Witness ==
    /\ spc = "exited"
    /\ page.fetched
    /\ Cardinality(Priced) = 2
    /\ sexit = 1
    /\ saves = 0
    /\ FUEL_PRICES_FILE = OldPrices

====
